---------------------------- MODULE Spec2Model ----------------------------
(***************************************************************************)
(* A model of the SummerCash node core: the transaction DAG (graph.rs),    *)
(* transaction construction and execution (transaction.rs), the Kademlia   *)
(* event handler that drives ledger synchronisation (kademlia.rs) and the  *)
(* DAG RPC service (dag.rs).                                               *)
(*                                                                         *)
(* Indices are 0-based as in the source; the node at index i of the Rust   *)
(* vector is nodes[i + 1] of the TLA+ sequence (see NodeAt).               *)
(***************************************************************************)
EXTENDS Integers, Sequences, FiniteSets, TLC

VARIABLES
    ledger,                 \* System.ledger: the Graph {nodes, hash_routes, node_children, db}
    pending,                \* System: the pending proposals, keyed by proposal_id
    executed,               \* System: the ids of the proposals already executed
    poisoned,               \* the RwLock<System> is poisoned (a writer panicked)
    should_broadcast_dag,   \* ClientBehavior.should_broadcast_dag
    kad_queries,            \* the GetRecord queries kad_dht.get_record has been asked for and not answered
    peers,                  \* the number of peers the behaviour knows at the moment
    dht,                    \* the records the remote peer serves, key -> value
    swarm_down,             \* the thread that polls the swarm has unwound (inject_event panicked)
    client_tx,              \* the transaction a caller is building (Transaction::new, then signing and registration)
    runtime,                \* Arc<RwLock<System>>: who holds the lock, where each thread is, the writers in the order they acquired it
    last                    \* the Graph method that ran last, with its inputs and what it returned

vars == <<ledger, pending, executed, poisoned, should_broadcast_dag,
          kad_queries, peers, dht, swarm_down, client_tx, runtime, last>>

-----------------------------------------------------------------------------
(* Bounds of the model *)

\* Graph harness: the operations stop growing the graph at this many nodes.
MaxNodes == 2

\* The records one GetRecord result carries, at most.
MaxRecords == 2

\* The parent entries one register_parental_state call is given, at most.
MaxParents == 2

\* The write locks taken in one behaviour of the lock model, at most.
MaxAcquires == 3

\* Transaction inputs: nonces, values and prior balances go up to these.
MaxTxNonce == 1

MaxValue == 1

MaxBalance == 1

\* The GetRecord queries outstanding at once, at most: an event that would
\* leave more is not delivered.
MaxQueries == 1

\* The peers the behaviour knows, at most.
MaxPeers == 3

-----------------------------------------------------------------------------
(* Option, maps *)

None == [some |-> FALSE]

Some(v) == [some |-> TRUE, val |-> v]

EmptyMap == [x \in {} |-> 0]

\* HashMap::insert
MapPut(m, k, v) == [x \in (DOMAIN m) \cup {k} |-> IF x = k THEN v ELSE m[x]]

-----------------------------------------------------------------------------
(* Hashes, addresses, state entries *)

\* blake3::hash_slice: a collision-free digest, kept as the value it digests.
HashSlice(bytes) == [digest_of |-> bytes]

\* bincode::serialize: an injective encoding of the value.
Serialize(v) == <<"bincode", v>>

\* Hash::new(vec![0; HASH_SIZE]): the parent of a root transaction.
ZeroHash == [zero |-> TRUE]

Address == {"A", "B"}

\* state::Entry::new(nonces, balances)
Entry_new(nonces, balances) == [balances |-> balances, nonces |-> nonces]

\* The outcome of a call that unwinds (BigUint subtraction below zero).
Panic == [panic |-> TRUE]

-----------------------------------------------------------------------------
(* transaction.rs *)

TransactionHashOfData(transaction_data) == HashSlice(Serialize(transaction_data))

Transaction_new(nonce, sender, recipient, value_finks, parents) ==
    LET transaction_data ==
            [nonce |-> nonce, sender |-> sender, recipient |-> recipient,
             value |-> value_finks, parents |-> parents,
             parent_receipts |-> None, parent_state_hash |-> None]
    IN  [transaction_data |-> transaction_data,
         hash |-> TransactionHashOfData(transaction_data),
         signature |-> None,
         genesis |-> FALSE]

\* Transaction::execute, the None arm.
ExecuteBootstrap(tx) ==
    Entry_new(MapPut(EmptyMap, tx.transaction_data.sender, tx.transaction_data.nonce),
              MapPut(EmptyMap, tx.transaction_data.recipient, tx.transaction_data.value))

\* The Some(entry) arm reading the recipient's balance from the prior entry
\* instead of from the map after the sender's subtraction.
ExecuteInductive_StaleRecipient(tx, entry) ==
    LET d == tx.transaction_data
        sender_balance == IF d.sender \in DOMAIN entry.balances
                          THEN entry.balances[d.sender] ELSE 0
    IN  IF sender_balance < d.value THEN Panic
        ELSE LET b1 == MapPut(entry.balances, d.sender, sender_balance - d.value)
                 recipient_balance == IF d.recipient \in DOMAIN entry.balances
                                      THEN entry.balances[d.recipient] ELSE 0
                 b2 == MapPut(b1, d.recipient, recipient_balance + d.value)
             IN  Entry_new(MapPut(entry.nonces, d.sender, d.nonce), b2)

\* Transaction::execute, the Some(entry) arm with balances: BigUint - BigUint
\* panics when the result would be negative.
ExecuteInductive(tx, entry) ==
    LET d == tx.transaction_data
        sender_balance == IF d.sender \in DOMAIN entry.balances
                          THEN entry.balances[d.sender] ELSE 0
    IN  IF sender_balance < d.value THEN Panic
        ELSE LET b1 == MapPut(entry.balances, d.sender, sender_balance - d.value)
                 recipient_balance == IF d.recipient \in DOMAIN b1 THEN b1[d.recipient] ELSE 0
                 b2 == MapPut(b1, d.recipient, recipient_balance + d.value)
             IN  Entry_new(MapPut(entry.nonces, d.sender, d.nonce), b2)

\* Transaction::execute that starts from the prior nonces when the prior
\* balances are empty.
Execute_KeepNonces(tx, prev_entry) ==
    IF prev_entry.some /\ DOMAIN prev_entry.val.balances # {}
    THEN ExecuteInductive(tx, prev_entry.val)
    ELSE IF prev_entry.some
         THEN Entry_new(MapPut(prev_entry.val.nonces, tx.transaction_data.sender,
                               tx.transaction_data.nonce),
                        ExecuteBootstrap(tx).balances)
         ELSE ExecuteBootstrap(tx)

\* Transaction::execute
Execute(tx, prev_entry) ==
    IF prev_entry.some /\ DOMAIN prev_entry.val.balances # {}
    THEN ExecuteInductive(tx, prev_entry.val)
    ELSE ExecuteBootstrap(tx)

-----------------------------------------------------------------------------
(* graph.rs *)

Node_new(transaction, state_entry) ==
    [transaction |-> transaction, state_entry |-> state_entry, hash |-> transaction.hash]

NodeAt(g, i) == g.nodes[i + 1]

Graph_new(root_transaction) ==
    [nodes |-> << [transaction |-> root_transaction,
                   state_entry |-> Some(Execute(root_transaction, None)),
                   hash |-> root_transaction.hash] >>,
     hash_routes |-> MapPut(EmptyMap, root_transaction.hash, 0),
     node_children |-> EmptyMap,
     db |-> None]

\* The loop over the parents with key and value swapped: the parent is
\* recorded as a child of the transaction.
RECURSIVE PushChildren_Swapped(_, _, _)
PushChildren_Swapped(node_children, transaction_parents, transaction_hash) ==
    IF transaction_parents = <<>> THEN node_children
    ELSE LET parent == Head(transaction_parents) IN
         IF transaction_hash \notin DOMAIN node_children
         THEN MapPut(node_children, transaction_hash, <<parent>>)
         ELSE PushChildren_Swapped(
                  MapPut(node_children, transaction_hash,
                         Append(node_children[transaction_hash], parent)),
                  Tail(transaction_parents), transaction_hash)

\* The loop over the parents in Graph::push: the arm that creates a parent's
\* entry ends with `break`, so the parents after it are not visited.
RECURSIVE PushChildren(_, _, _)
PushChildren(node_children, transaction_parents, transaction_hash) ==
    IF transaction_parents = <<>> THEN node_children
    ELSE LET parent == Head(transaction_parents) IN
         IF parent \notin DOMAIN node_children
         THEN MapPut(node_children, parent, <<transaction_hash>>)
         ELSE PushChildren(
                  MapPut(node_children, parent, Append(node_children[parent], transaction_hash)),
                  Tail(transaction_parents), transaction_hash)

\* Graph::push without the insert into hash_routes.
Graph_push_NoRoute(g, transaction, state_entry) ==
    LET new_nodes == Append(g.nodes, Node_new(transaction, state_entry)) IN
    [graph |-> [g EXCEPT
                  !.nodes = new_nodes,
                  !.node_children = PushChildren(g.node_children,
                                                 transaction.transaction_data.parents,
                                                 transaction.hash)],
     index |-> Len(new_nodes) - 1]

\* Graph::push that returns the number of nodes after the call.
Graph_push_ReturnsLen(g, transaction, state_entry) ==
    LET new_nodes == Append(g.nodes, Node_new(transaction, state_entry)) IN
    [graph |-> [g EXCEPT
                  !.nodes = new_nodes,
                  !.hash_routes = MapPut(g.hash_routes, transaction.hash, Len(new_nodes)),
                  !.node_children = PushChildren(g.node_children,
                                                 transaction.transaction_data.parents,
                                                 transaction.hash)],
     index |-> Len(new_nodes)]

\* Graph::push: the graph after the call and the index it returns.
Graph_push(g, transaction, state_entry) ==
    LET new_nodes == Append(g.nodes, Node_new(transaction, state_entry)) IN
    [graph |-> [g EXCEPT
                  !.nodes = new_nodes,
                  !.hash_routes = MapPut(g.hash_routes, transaction.hash, Len(new_nodes) - 1),
                  !.node_children = PushChildren(g.node_children,
                                                 transaction.transaction_data.parents,
                                                 transaction.hash)],
     index |-> Len(new_nodes) - 1]

\* Graph::update that also routes the hash of the transaction to the index.
Graph_update_Rerouted(g, index, transaction, state_entry) ==
    [g EXCEPT !.nodes[index + 1] = Node_new(transaction, state_entry),
              !.hash_routes = MapPut(g.hash_routes, transaction.hash, index)]

\* Graph::update, for an index inside the vector (any other index panics).
Graph_update(g, index, transaction, state_entry) ==
    [g EXCEPT !.nodes[index + 1] = Node_new(transaction, state_entry)]

\* Node::to_bytes: bincode::serialize of the node.
Node_to_bytes(node) == Serialize(node)

\* Node::from_bytes, for bytes that Node::to_bytes made.
Node_from_bytes(b) == b[2]

\* index.to_string(): the decimal digits, most significant first.
RECURSIVE IndexKey(_)
IndexKey(i) == IF i < 10 THEN <<i>> ELSE Append(IndexKey(i \div 10), i % 10)

\* Graph::get: hydrates a header-only node from the store, when there is one
\* and it holds the node; the graph after the call and the node it returns.
Graph_get(g, index) ==
    LET node == NodeAt(g, index) IN
    IF node.state_entry.some \/ ~g.db.some \/ IndexKey(index) \notin DOMAIN g.db.val
    THEN [graph |-> g, node |-> node]
    ELSE LET deserialized_node == Node_from_bytes(g.db.val[IndexKey(index)])
             hydrated == [node EXCEPT !.state_entry = deserialized_node.state_entry]
         IN  [graph |-> [g EXCEPT !.nodes[index + 1] = hydrated], node |-> hydrated]

\* Graph::get_with_hash
Graph_get_with_hash(g, hash) ==
    IF hash \in DOMAIN g.hash_routes
    THEN [ok |-> TRUE, node |-> NodeAt(g, g.hash_routes[hash])]
    ELSE [ok |-> FALSE, error |-> "NoLookupResults"]

\* The order of the store: keys compare byte by byte, a proper prefix first.
RECURSIVE LexLess(_, _)
LexLess(a, b) ==
    IF a = <<>> THEN b # <<>>
    ELSE IF b = <<>> THEN FALSE
    ELSE IF a[1] # b[1] THEN a[1] < b[1]
    ELSE LexLess(Tail(a), Tail(b))

\* db.scan(b"0"): the keys of the store in the order of the store.
RECURSIVE ScanKeys(_)
ScanKeys(keys) ==
    IF keys = {} THEN <<>>
    ELSE LET first == CHOOSE k \in keys : \A o \in keys \ {k} : LexLess(k, o)
         IN  <<first>> \o ScanKeys(keys \ {first})

\* The loop over the parents in read_some_from_disk: a parent met for the
\* first time gets an entry holding the child, and the push that follows the
\* `if` adds the child once more; every parent is visited.
RECURSIVE ReadChildren(_, _, _)
ReadChildren(node_children, parents, hash) ==
    IF parents = <<>> THEN node_children
    ELSE LET parent == Head(parents)
             inserted == IF parent \notin DOMAIN node_children
                         THEN MapPut(node_children, parent, <<hash>>)
                         ELSE node_children
         IN  ReadChildren(MapPut(inserted, parent, Append(inserted[parent], hash)),
                          Tail(parents), hash)

\* The closure read_some_from_disk runs on each pair of the scan.
RECURSIVE ReadNodes(_, _, _)
ReadNodes(g, keys, read_all) ==
    IF keys = <<>> THEN g
    ELSE LET deserialized == Node_from_bytes(g.db.val[Head(keys)])
             current_node == IF read_all THEN deserialized
                             ELSE [deserialized EXCEPT !.state_entry = None]
         IN  ReadNodes([g EXCEPT
                          !.hash_routes = MapPut(g.hash_routes, current_node.hash, Len(g.nodes)),
                          !.node_children = ReadChildren(g.node_children,
                                                current_node.transaction.transaction_data.parents,
                                                current_node.hash),
                          !.nodes = Append(g.nodes, current_node)],
                       Tail(keys), read_all)

\* Graph::read_some_from_disk, given what the store at io::db_dir() holds.
Graph_read_some_from_disk(read_all, store) ==
    ReadNodes([nodes |-> <<>>, hash_routes |-> EmptyMap, node_children |-> EmptyMap,
               db |-> Some(store)],
              ScanKeys(DOMAIN store), read_all)

Graph_read_partial_from_disk(store) == Graph_read_some_from_disk(FALSE, store)

Graph_read_from_disk(store) == Graph_read_some_from_disk(TRUE, store)

\* The loop of write_to_disk: after a db.set that succeeds the `continue`
\* goes to the next node without the increment of i.
RECURSIVE WriteNodes(_, _, _)
WriteNodes(store, nodes, i) ==
    IF nodes = <<>> THEN store
    ELSE IF IndexKey(i) \notin DOMAIN store
         THEN WriteNodes(MapPut(store, IndexKey(i), Node_to_bytes(Head(nodes))), Tail(nodes), i)
         ELSE WriteNodes(store, Tail(nodes), i + 1)

\* Graph::write_to_disk when no store operation fails: the graph (its store)
\* after the call and the result.
Graph_write_to_disk(g) ==
    IF g.db.some
    THEN [ok |-> TRUE, graph |-> [g EXCEPT !.db = Some(WriteNodes(g.db.val, g.nodes, 0))]]
    ELSE [ok |-> FALSE, graph |-> g, error |-> "Unsupported"]

-----------------------------------------------------------------------------
(* The transactions the graph operations are called with: built with        *)
(* Transaction::new, as in the tests of graph.rs.                           *)

RootTx == Transaction_new(0, "A", "B", 0, <<ZeroHash>>)

ChildTx == Transaction_new(1, "A", "B", 0, <<RootTx.hash>>)

\* Two parents, the first of which has no children yet when the second has.
MergeTx == Transaction_new(2, "A", "B", 0, <<ChildTx.hash, RootTx.hash>>)

\* Two parents, in the other order.
TwinTx == Transaction_new(0, "B", "A", 0, <<RootTx.hash, ChildTx.hash>>)

TxPool == {RootTx, ChildTx, MergeTx, TwinTx}

\* The state entries a caller hands to push and update along with tx.
EntriesFor(tx) == {None, Some(ExecuteBootstrap(tx))}

-----------------------------------------------------------------------------
(* The graph harness: Graph::new, then any pushes, updates and gets.        *)

NoOp == [op |-> "none"]

\* The lock with no holder, when no thread of the node is modelled.
Unlocked == [writer |-> None, readers |-> {}, threads |-> EmptyMap, acquired |-> <<>>]

IdleNode ==
    /\ pending = EmptyMap
    /\ executed = {}
    /\ poisoned = FALSE
    /\ should_broadcast_dag = FALSE
    /\ kad_queries = <<>>
    /\ peers = 0
    /\ dht = EmptyMap
    /\ client_tx = None
    /\ runtime = Unlocked
    /\ swarm_down = FALSE

nodeVars == <<pending, executed, poisoned, should_broadcast_dag, kad_queries, peers, dht, client_tx,
              runtime, swarm_down>>

GraphInit ==
    /\ \E root_transaction \in TxPool : ledger = Graph_new(root_transaction)
    /\ IdleNode
    /\ last = [op |-> "new"]

Push(transaction, state_entry) ==
    /\ Len(ledger.nodes) < MaxNodes
    /\ LET r == Graph_push(ledger, transaction, state_entry) IN
       /\ ledger' = r.graph
       /\ last' = [op |-> "push", tx |-> transaction, ret |-> r.index]
    /\ UNCHANGED nodeVars

Update(index, transaction, state_entry) ==
    /\ index \in 0 .. Len(ledger.nodes) - 1
    /\ ledger' = Graph_update(ledger, index, transaction, state_entry)
    /\ last' = [op |-> "update", tx |-> transaction, index |-> index]
    /\ UNCHANGED nodeVars

Get(index) ==
    /\ index \in 0 .. Len(ledger.nodes) - 1
    /\ LET r == Graph_get(ledger, index) IN
       /\ ledger' = r.graph
       /\ last' = [op |-> "get", index |-> index, ret |-> r.node]
    /\ UNCHANGED nodeVars

GraphNext ==
    \/ \E t \in TxPool : \E e \in EntriesFor(t) : Push(t, e)
    \/ \E i \in 0 .. MaxNodes : \E t \in TxPool : \E e \in EntriesFor(t) : Update(i, t, e)
    \/ \E i \in 0 .. MaxNodes : Get(i)

SpecGraph == GraphInit /\ [][GraphNext]_vars

-----------------------------------------------------------------------------
(* Signatures (transaction.rs, signature.rs). A keypair is named by the      *)
(* address Address::from_key_pair derives from it.                           *)

\* sign_transaction that signs before it compares the addresses.
SignTransaction_SignsFirst(keypair, transaction) ==
    [ok |-> transaction.transaction_data.sender = keypair,
     tx |-> [transaction EXCEPT
               !.signature = Some([public_key |-> keypair, signed |-> transaction.hash])]]

\* sign_transaction
SignTransaction(keypair, transaction) ==
    IF transaction.transaction_data.sender # keypair
    THEN [ok |-> FALSE, tx |-> transaction]
    ELSE [ok |-> TRUE,
          tx |-> [transaction EXCEPT
                    !.signature = Some([public_key |-> keypair, signed |-> transaction.hash])]]

\* Signature::verify_tx: the signature is over the transaction's hash and its
\* key is the sender's.
Signature_verify_tx(signature, transaction) ==
    /\ signature.signed = transaction.hash
    /\ signature.public_key = transaction.transaction_data.sender

\* verify_signature that takes a missing signature for a valid one.
VerifySignature_NoneIsValid(transaction) ==
    IF ~transaction.signature.some THEN TRUE
    ELSE Signature_verify_tx(transaction.signature.val, transaction)

\* Transaction::verify_signature
VerifySignature(transaction) ==
    IF ~transaction.signature.some THEN FALSE
    ELSE Signature_verify_tx(transaction.signature.val, transaction)

-----------------------------------------------------------------------------
(* Wire values and DHT keys (sync.rs, §6 of the specification)               *)

\* Transaction::to_bytes
Transaction_to_bytes(transaction) == <<"bincode_transaction", transaction>>

\* The raw bytes of a hash, as stored under the root and next:: keys.
HashBytes(hash) == <<"hash_bytes", hash>>

\* Bytes that are neither.
Garbage == <<"garbage", 0>>

\* bincode::deserialize::<Transaction>
Deserialize(bytes) ==
    IF bytes[1] = "bincode_transaction" THEN [ok |-> TRUE, val |-> bytes[2]] ELSE [ok |-> FALSE]

\* What Hash::new makes of bytes that are not a hash of the DAG.
JunkHash == [junk |-> TRUE]

\* Hash::new(record.value)
Hash_new(bytes) == IF bytes[1] = "hash_bytes" THEN bytes[2] ELSE JunkHash

\* b"ledger::transactions::root"
RootKey == [family |-> "root"]

\* sync::transaction_with_hash_key
TransactionWithHashKey(hash) == [family |-> "tx", hash |-> hash]

\* sync::next_transaction_key
NextTransactionKey(hash) == [family |-> "next", hash |-> hash]

\* A key of none of the three families.
OtherKey == [family |-> "other"]

-----------------------------------------------------------------------------
(* System (system.rs) and proposals (proposal.rs), after §4.3 and §7 of the  *)
(* specification.                                                            *)

LedgerPath == "ledger::transactions"

\* "sync_child".to_owned()
SyncChildName == [text |-> "sync_child"]

\* format!("new_tx({})", tx.hash.to_str())
NewTxName(hash) == [text |-> "new_tx", hash |-> hash]

ProposalData_new(path, operation) == [path |-> path, operation |-> operation]

OperationAppend(value_to_append) == [kind |-> "Append", value_to_append |-> value_to_append]

Proposal_new(name, data) ==
    [proposal_id |-> HashSlice(Serialize(<<name, data>>)), name |-> name, data |-> data]

\* The System behind the lock, as one value.
Sys ==
    [ledger |-> ledger, pending |-> pending, executed |-> executed]

\* System::push_proposal: a no-op when the id is already pending.
PushProposal(sys, proposal) ==
    IF proposal.proposal_id \in DOMAIN sys.pending THEN sys
    ELSE [sys EXCEPT !.pending = MapPut(sys.pending, proposal.proposal_id, proposal)]

\* System::register_proposal: push_proposal; the transport does the broadcast.
RegisterProposal(sys, proposal) == PushProposal(sys, proposal)

MapRemove(m, k) == [x \in (DOMAIN m) \ {k} |-> m[x]]

\* §7: the signature verifies for the sender, and a transaction that is not
\* the genesis names a parent.
ValidateTransaction(tx) ==
    IF ~VerifySignature(tx) THEN "InvalidSignature"
    ELSE IF tx.transaction_data.parents = <<>> /\ ~tx.genesis THEN "NoParents"
    ELSE "Ok"

\* The content hash of a state entry, as its rank in the byte order of the
\* hashes: any injective ranking is one possible outcome of blake3.
EntryRank(entry) ==
    LET Digit(m, a) == IF a \in DOMAIN m THEN m[a] + 1 ELSE 0 IN
    Digit(entry.balances, "A") + 8 * Digit(entry.balances, "B")
      + 64 * Digit(entry.nonces, "A") + 512 * Digit(entry.nonces, "B")

\* §4.1: every balance from the parent entry with the largest state hash, every
\* nonce the largest any parent records.
MergeEntries(entries) ==
    LET top == CHOOSE e \in entries : \A f \in entries : EntryRank(f) <= EntryRank(e)
        senders == UNION {DOMAIN e.nonces : e \in entries}
        MaxNonce(a) == CHOOSE n \in {e.nonces[a] : e \in {f \in entries : a \in DOMAIN f.nonces}} :
                          \A e \in {f \in entries : a \in DOMAIN f.nonces} : e.nonces[a] <= n
    IN  Entry_new([a \in senders |-> MaxNonce(a)], top.balances)

\* Graph::resolve_parent_nodes: every parent has a route and a state entry,
\* in memory or in the store.
ResolveParentNodes(g, parents) ==
    LET ps == {parents[i] : i \in DOMAIN parents} IN
    IF \E p \in ps : p \notin DOMAIN g.hash_routes THEN [ok |-> FALSE, error |-> "NoLookupResults"]
    ELSE IF \E p \in ps : ~Graph_get(g, g.hash_routes[p]).node.state_entry.some
    THEN [ok |-> FALSE, error |-> "StateUnresolved"]
    ELSE IF ps = {} THEN [ok |-> TRUE, merged |-> Entry_new(EmptyMap, EmptyMap)]
    ELSE [ok |-> TRUE,
          merged |-> MergeEntries({Graph_get(g, g.hash_routes[p]).node.state_entry.val : p \in ps})]

\* System::execute_proposal: the System after the call and the result; the
\* result "Panic" is Transaction::execute unwinding.
ExecuteProposal(sys, proposal_id) ==
    IF proposal_id \notin DOMAIN sys.pending
    THEN [sys |-> sys,
          result |-> IF proposal_id \in sys.executed THEN "AlreadyExecuted" ELSE "NoLookupResults"]
    ELSE
    LET proposal == sys.pending[proposal_id]
        decoded == Deserialize(proposal.data.operation.value_to_append)
        tx == decoded.val
        done == [sys EXCEPT !.pending = MapRemove(sys.pending, proposal_id),
                            !.executed = sys.executed \cup {proposal_id}]
    IN
    IF proposal.data.path # LedgerPath \/ proposal.data.operation.kind # "Append"
    THEN [sys |-> sys, result |-> "UnknownTarget"]
    ELSE IF ~decoded.ok THEN [sys |-> sys, result |-> "Serialization"]
    ELSE IF tx.hash \in DOMAIN sys.ledger.hash_routes
    THEN [sys |-> done, result |-> "AlreadyExecuted"]
    ELSE IF ValidateTransaction(tx) # "Ok" THEN [sys |-> sys, result |-> ValidateTransaction(tx)]
    ELSE
    LET resolved == ResolveParentNodes(sys.ledger, tx.transaction_data.parents) IN
    IF ~resolved.ok THEN [sys |-> sys, result |-> resolved.error]
    ELSE
    LET entry == Execute(tx, Some(resolved.merged)) IN
    IF entry = Panic THEN [sys |-> sys, result |-> "Panic"]
    ELSE [sys |-> [done EXCEPT !.ledger = Graph_push(sys.ledger, tx, Some(entry)).graph],
          result |-> "Ok"]

\* ClientBehavior::active_subset_quorum: half the known peers, rounded up, and
\* at least one.
ActiveSubsetQuorum(n_peers) == IF n_peers <= 2 THEN 1 ELSE (n_peers + 1) \div 2

-----------------------------------------------------------------------------
(* kademlia.rs: NetworkBehaviourEventProcess<KademliaEvent>::inject_event    *)

\* get_record asked with Quorum::One whatever quorum was computed.
GetRecordQuery_QuorumOne(key, quorum) == [key |-> key, quorum |-> 1]

\* self.kad_dht.get_record(&key, q): the query as it stays in flight.
GetRecordQuery(key, quorum) == [key |-> key, quorum |-> quorum]

\* The handler's view while it runs: the System behind the lock, whether the
\* lock is poisoned, the get_record calls made so far, what each
\* execute_proposal returned, and whether the function is still running,
\* has returned early or has unwound.
HandlerStart ==
    [sys |-> Sys, poisoned |-> poisoned, issued |-> <<>>, results |-> <<>>, flow |-> "running"]

\* The part under the write lock without the test of nodes.is_empty(): every
\* transaction is pushed as the root is.
InstallTransaction_AlwaysPush(st, tx, value) ==
    IF st.poisoned THEN st
    ELSE [st EXCEPT !.sys.ledger = Graph_push(st.sys.ledger, tx, None).graph]

\* The arm for a key that contains "ledger::transactions::tx", once the value
\* has deserialized to tx: the part under the write lock.
InstallTransaction(st, tx, value) ==
    IF st.poisoned THEN st
    ELSE IF st.sys.ledger.nodes = <<>>
    THEN [st EXCEPT !.sys.ledger = Graph_push(st.sys.ledger, tx, None).graph]
    ELSE LET proposal == Proposal_new(SyncChildName,
                                      ProposalData_new(LedgerPath, OperationAppend(value)))
             r == ExecuteProposal(PushProposal(st.sys, proposal), proposal.proposal_id)
         IN  IF r.result = "Panic"
             THEN [st EXCEPT !.sys = r.sys, !.poisoned = TRUE, !.flow = "panicked",
                             !.results = Append(st.results, r.result)]
             ELSE [st EXCEPT !.sys = r.sys, !.results = Append(st.results, r.result)]

\* The body of the loop over result.records, for one record; q is what
\* active_subset_quorum() returns during this event.
HandleRecord(st, record, q) ==
    IF record.key = RootKey
    THEN [st EXCEPT !.issued = Append(st.issued,
              GetRecordQuery(TransactionWithHashKey(Hash_new(record.value)), q))]
    ELSE IF record.key.family = "tx"
    THEN LET decoded == Deserialize(record.value) IN
         IF ~decoded.ok THEN [st EXCEPT !.flow = "returned"]
         ELSE LET after == InstallTransaction(st, decoded.val, record.value) IN
              IF after.flow = "panicked" THEN after
              ELSE [after EXCEPT !.issued = Append(after.issued,
                        GetRecordQuery(NextTransactionKey(decoded.val.hash), q))]
    ELSE IF record.key.family = "next"
    THEN [st EXCEPT !.issued = Append(st.issued,
              GetRecordQuery(TransactionWithHashKey(Hash_new(record.value)), q))]
    ELSE st

\* for PeerRecord { record, .. } in result.records: a return or a panic in the
\* body ends the loop.
RECURSIVE HandleRecords(_, _, _)
HandleRecords(st, records, q) ==
    IF records = <<>> \/ st.flow # "running" THEN st
    ELSE HandleRecords(HandleRecord(st, Head(records), q), Tail(records), q)

\* inject_event on QueryResult::GetRecord(Ok(result))
OnGetRecordOk(records) == HandleRecords(HandlerStart, records, ActiveSubsetQuorum(peers))

-----------------------------------------------------------------------------
(* The transactions and records that reach the node from the network and     *)
(* from the mem directory.                                                   *)

GenesisTx == SignTransaction("A", RootTx).tx

SyncChildTx == SignTransaction("A", ChildTx).tx

\* Signed and well-formed, and its value is more than its sender holds.
OverdraftTx == SignTransaction("A", Transaction_new(2, "A", "B", 1, <<RootTx.hash>>)).tx

\* Never signed.
UnsignedTx == Transaction_new(0, "B", "A", 0, <<RootTx.hash>>)

PeerRecord(key, value) == [key |-> key, value |-> value]

RecordPool ==
    { PeerRecord(RootKey, HashBytes(GenesisTx.hash)),
      PeerRecord(TransactionWithHashKey(GenesisTx.hash), Transaction_to_bytes(GenesisTx)),
      PeerRecord(TransactionWithHashKey(SyncChildTx.hash), Transaction_to_bytes(SyncChildTx)),
      PeerRecord(TransactionWithHashKey(SyncChildTx.hash), Garbage),
      PeerRecord(NextTransactionKey(GenesisTx.hash), HashBytes(SyncChildTx.hash)),
      PeerRecord(TransactionWithHashKey(OverdraftTx.hash), Transaction_to_bytes(OverdraftTx)),
      PeerRecord(OtherKey, Garbage) }

\* The results a GetRecord query can end with: the records of up to
\* MaxRecords peers, in any order.
RECURSIVE SeqsUpTo(_, _)
SeqsUpTo(S, n) ==
    IF n = 0 THEN {<<>>}
    ELSE LET shorter == SeqsUpTo(S, n - 1) IN
         shorter \cup {Append(q, x) : q \in shorter, x \in S}

GetRecordResults == SeqsUpTo(RecordPool, MaxRecords) \ {<<>>}

\* The transactions publish_transaction finds in the mem directory.
MemPool == {SyncChildTx, OverdraftTx}

EmptyGraph == [nodes |-> <<>>, hash_routes |-> EmptyMap, node_children |-> EmptyMap, db |-> None]

-----------------------------------------------------------------------------
(* The node: the Kademlia handler, the RPC writers and the environment.      *)

RemoveAt(seq, i) == SubSeq(seq, 1, i - 1) \o SubSeq(seq, i + 1, Len(seq))

NodeInit ==
    /\ ledger \in {EmptyGraph, Graph_new(GenesisTx)}
    /\ pending = EmptyMap
    /\ executed = {}
    /\ poisoned = FALSE
    /\ should_broadcast_dag = FALSE
    /\ kad_queries = <<GetRecordQuery(RootKey, ActiveSubsetQuorum(0))>>
    /\ peers = 0
    /\ dht = EmptyMap
    /\ client_tx = None
    /\ runtime = Unlocked
    /\ swarm_down = FALSE
    /\ last = NoOp

\* QueryResult::GetRecord(Ok(result)) for the outstanding query at position i.
GetRecordOk(i, records) ==
    /\ ~swarm_down
    /\ i \in DOMAIN kad_queries
    /\ LET st == OnGetRecordOk(records) IN
       /\ Len(kad_queries) - 1 + Len(st.issued) <= MaxQueries
       /\ ledger' = st.sys.ledger
       /\ pending' = st.sys.pending
       /\ executed' = st.sys.executed
       /\ poisoned' = st.poisoned
       /\ swarm_down' = (st.flow = "panicked")
       /\ kad_queries' = RemoveAt(kad_queries, i) \o st.issued
       /\ last' = NoOp
    /\ UNCHANGED <<should_broadcast_dag, peers, dht, client_tx, runtime>>

\* QueryResult::GetRecord(Err(e)) that starts the walk again from the root key.
GetRecordErr_Restart(i) ==
    /\ ~swarm_down
    /\ i \in DOMAIN kad_queries
    /\ kad_queries' = Append(RemoveAt(kad_queries, i),
                             GetRecordQuery(RootKey, ActiveSubsetQuorum(peers)))
    /\ last' = NoOp
    /\ UNCHANGED <<ledger, pending, executed, poisoned, should_broadcast_dag, peers, dht, client_tx, runtime, swarm_down>>

\* QueryResult::GetRecord(Err(e))
GetRecordErr(i) ==
    /\ ~swarm_down
    /\ i \in DOMAIN kad_queries
    /\ kad_queries' = RemoveAt(kad_queries, i)
    /\ last' = NoOp
    /\ UNCHANGED <<ledger, pending, executed, poisoned, should_broadcast_dag, peers, dht, client_tx, runtime, swarm_down>>

\* QueryResult::PutRecord(Ok(result))
PutRecordOk ==
    /\ ~swarm_down
    /\ last' = NoOp
    /\ UNCHANGED <<ledger, pending, executed, poisoned, should_broadcast_dag, kad_queries,
                   peers, dht, client_tx, runtime, swarm_down>>

\* The flag after a QueryResult::PutRecord(Err(e)) that only logs.
OnPutRecordErr_LogOnly(flag) == flag

\* The flag after QueryResult::PutRecord(Err(e)): self.should_broadcast_dag = true.
OnPutRecordErr(flag) == TRUE

\* QueryResult::PutRecord(Err(e))
PutRecordErr ==
    /\ ~swarm_down
    /\ should_broadcast_dag' = OnPutRecordErr(should_broadcast_dag)
    /\ last' = NoOp
    /\ UNCHANGED <<ledger, pending, executed, poisoned, kad_queries, peers, dht, client_tx, runtime, swarm_down>>

\* DagImpl::publish_tx, for a transaction of the mem directory.
PublishTx(tx) ==
    /\ ~poisoned
    /\ LET proposal == Proposal_new(NewTxName(tx.hash),
                                    ProposalData_new(LedgerPath,
                                                     OperationAppend(Transaction_to_bytes(tx))))
           sys == RegisterProposal(Sys, proposal)
       IN  /\ pending' = sys.pending
           /\ last' = NoOp
    /\ UNCHANGED <<ledger, executed, poisoned, should_broadcast_dag, kad_queries, peers, dht, client_tx, runtime,
                   swarm_down>>

\* A writer other than the handler runs execute_proposal on a proposal that
\* was registered; a panic inside poisons the lock.
ExecuteRegistered(proposal_id) ==
    /\ ~poisoned
    /\ proposal_id \in (DOMAIN pending) \cup executed
    /\ LET r == ExecuteProposal(Sys, proposal_id) IN
       /\ ledger' = r.sys.ledger
       /\ pending' = r.sys.pending
       /\ executed' = r.sys.executed
       /\ poisoned' = (r.result = "Panic")
       /\ last' = NoOp
    /\ UNCHANGED <<should_broadcast_dag, kad_queries, peers, dht, client_tx, runtime, swarm_down>>

\* The behaviour learns of a peer or loses one.
PeersChange(n) ==
    /\ n \in 0 .. MaxPeers
    /\ n # peers
    /\ peers' = n
    /\ last' = NoOp
    /\ UNCHANGED <<ledger, pending, executed, poisoned, should_broadcast_dag, kad_queries, dht, client_tx, runtime,
                   swarm_down>>

\* The periodic tick asks for the root pointer again.
SyncTick ==
    /\ ~swarm_down
    /\ Len(kad_queries) < MaxQueries
    /\ kad_queries' = Append(kad_queries, GetRecordQuery(RootKey, ActiveSubsetQuorum(peers)))
    /\ last' = NoOp
    /\ UNCHANGED <<ledger, pending, executed, poisoned, should_broadcast_dag, peers, dht, client_tx, runtime,
                   swarm_down>>

Next ==
    \/ \E i \in 1 .. MaxQueries : \E records \in GetRecordResults : GetRecordOk(i, records)
    \/ \E i \in 1 .. MaxQueries : GetRecordErr(i)
    \/ PutRecordOk
    \/ PutRecordErr
    \/ \E tx \in MemPool : PublishTx(tx)
    \/ \E id \in (DOMAIN pending) \cup executed : ExecuteRegistered(id)
    \/ \E n \in 0 .. MaxPeers : PeersChange(n)
    \/ SyncTick

Spec == NodeInit /\ [][Next]_vars

-----------------------------------------------------------------------------
(* Synchronisation against one honest peer: the node starts with an empty   *)
(* ledger and every query is answered from the peer's records, or fails     *)
(* when the peer holds no record under the key.                             *)

\* A second child of the root, signed by its sender.
SiblingTx == SignTransaction("B", UnsignedTx).tx

\* The DAGs the peer may hold, each in the order its transactions were appended.
PeerDags ==
    { <<GenesisTx>>,
      <<GenesisTx, SyncChildTx>>,
      <<GenesisTx, SyncChildTx, SiblingTx>> }

\* The hash stored under next::parent: the first child appended to it.
FirstChild(dag, parent) ==
    LET kids == {i \in DOMAIN dag :
                    \E j \in DOMAIN dag[i].transaction_data.parents :
                        dag[i].transaction_data.parents[j] = parent}
    IN  dag[CHOOSE i \in kids : \A k \in kids : i <= k].hash

\* What a peer holding dag has published: the root pointer, every transaction
\* under its hash, and one successor for every transaction that has a child.
PublishedRecords(dag) ==
    LET hashes == {dag[i].hash : i \in DOMAIN dag}
        parents == {h \in hashes :
                       \E i \in DOMAIN dag : \E j \in DOMAIN dag[i].transaction_data.parents :
                           dag[i].transaction_data.parents[j] = h}
        keys == {RootKey} \cup {TransactionWithHashKey(h) : h \in hashes}
                          \cup {NextTransactionKey(h) : h \in parents}
    IN  [k \in keys |->
            IF k = RootKey THEN HashBytes(dag[1].hash)
            ELSE IF k.family = "tx"
                 THEN Transaction_to_bytes(dag[CHOOSE i \in DOMAIN dag : dag[i].hash = k.hash])
                 ELSE HashBytes(FirstChild(dag, k.hash))]

\* The hashes of the transactions the peer has published.
PublishedHashes == {k.hash : k \in {x \in DOMAIN dht : x.family = "tx"}}

SyncInit ==
    /\ ledger = EmptyGraph
    /\ pending = EmptyMap
    /\ executed = {}
    /\ poisoned = FALSE
    /\ should_broadcast_dag = FALSE
    /\ peers = 0
    /\ kad_queries = <<GetRecordQuery(RootKey, ActiveSubsetQuorum(0))>>
    /\ \E dag \in PeerDags : dht = PublishedRecords(dag)
    /\ client_tx = None
    /\ runtime = Unlocked
    /\ swarm_down = FALSE
    /\ last = NoOp

\* The peer answers the query at position i with the record it holds.
SyncAnswer(i) ==
    /\ i \in DOMAIN kad_queries
    /\ kad_queries[i].key \in DOMAIN dht
    /\ GetRecordOk(i, <<PeerRecord(kad_queries[i].key, dht[kad_queries[i].key])>>)

\* The peer holds nothing under the key: the query fails.
SyncNotFound(i) ==
    /\ i \in DOMAIN kad_queries
    /\ kad_queries[i].key \notin DOMAIN dht
    /\ GetRecordErr(i)

SyncNext ==
    \/ \E i \in 1 .. MaxQueries : SyncAnswer(i)
    \/ \E i \in 1 .. MaxQueries : SyncNotFound(i)
    \/ \E n \in 0 .. MaxPeers : PeersChange(n)
    \/ SyncTick

SpecSync == SyncInit /\ [][SyncNext]_vars

-----------------------------------------------------------------------------
(* Properties of the graph (SpecGraph)                                       *)

Indices(g) == 0 .. Len(g.nodes) - 1

ParentsOf(transaction) ==
    {transaction.transaction_data.parents[i] : i \in DOMAIN transaction.transaction_data.parents}

\* C1: after Graph.new and any pushes and updates, duplicates included, every
\* index i has hash_routes[nodes[i].hash] = i, and every key of hash_routes
\* maps to the index of a node that carries that hash.
C1_HashRoutesBijection ==
    /\ \A i \in Indices(ledger) :
          /\ NodeAt(ledger, i).hash \in DOMAIN ledger.hash_routes
          /\ ledger.hash_routes[NodeAt(ledger, i).hash] = i
    /\ \A h \in DOMAIN ledger.hash_routes :
          /\ ledger.hash_routes[h] \in Indices(ledger)
          /\ NodeAt(ledger, ledger.hash_routes[h]).hash = h

\* C5: when push(tx, _) has returned, every parent p of tx has an entry in
\* node_children and tx.hash is in it, however many parents tx has and
\* whether or not the parent had an entry before.
C5_PushRecordsEveryParent ==
    last.op = "push" =>
        \A p \in ParentsOf(last.tx) :
            /\ p \in DOMAIN ledger.node_children
            /\ \E k \in DOMAIN ledger.node_children[p] :
                  ledger.node_children[p][k] = last.tx.hash

\* C6: a push of a transaction whose hash the graph already routes is
\* rejected: nodes, hash_routes and node_children are after the call what
\* they were before it.
C6_DuplicatePushRejected ==
    [][(last'.op = "push" /\ last'.tx.hash \in DOMAIN ledger.hash_routes)
          => /\ ledger'.nodes = ledger.nodes
             /\ ledger'.hash_routes = ledger.hash_routes
             /\ ledger'.node_children = ledger.node_children]_vars

\* C7: in every graph made by Graph.new and pushes, exactly one node carries
\* genesis = true, and it is the node at index 0.
C7_OneGenesisAtIndexZero ==
    ledger.nodes # <<>> =>
        \A i \in Indices(ledger) : NodeAt(ledger, i).transaction.genesis <=> (i = 0)

-----------------------------------------------------------------------------
(* Properties of the node (Spec) and of synchronisation (SpecSync)           *)

\* Every transaction that reaches the node, from the network or the mem directory.
TxUniverse == {GenesisTx, SyncChildTx, OverdraftTx, UnsignedTx}

\* The Append proposals the sync handler and publish_tx build for them.
AppendProposals ==
    UNION {{Proposal_new(name, ProposalData_new(LedgerPath,
                                                OperationAppend(Transaction_to_bytes(tx)))) :
               name \in {SyncChildName, NewTxName(tx.hash)}} : tx \in TxUniverse}

TransactionOf(proposal) == Deserialize(proposal.data.operation.value_to_append).val

NodesWithHash(g, hash) == {i \in Indices(g) : NodeAt(g, i).hash = hash}

\* The handler's view when the next event starts after one that left st.
Afterwards(st) == [st EXCEPT !.issued = <<>>, !.results = <<>>, !.flow = "running"]

IsTransactionRecord(record) == record.key.family = "tx" /\ Deserialize(record.value).ok

IsPointerRecord(record) == record.key = RootKey \/ record.key.family = "next"

Count(seq, x) == Cardinality({k \in DOMAIN seq : seq[k] = x})

\* C2: once the node that started empty has no query outstanding, the hashes
\* its ledger routes are the hashes of the DAG the peer published.
C2_SyncConverges ==
    kad_queries = <<>> => DOMAIN ledger.hash_routes = PublishedHashes

\* C3: push_proposal of a proposal that is pending changes nothing; when a
\* tx record makes the handler append a transaction through its Append
\* proposal, the graph grows by exactly that one node, and pushing and
\* executing the same proposal again returns AlreadyExecuted and leaves
\* nodes, hash_routes and node_children as they were, as does
\* execute_proposal on any proposal that has been executed.
C3_SecondExecuteAlreadyExecuted ==
    /\ \A id \in DOMAIN pending : PushProposal(Sys, pending[id]) = Sys
    /\ \A id \in executed :
          /\ ExecuteProposal(Sys, id).result = "AlreadyExecuted"
          /\ ExecuteProposal(Sys, id).sys.ledger = ledger
    /\ \A record \in {r \in RecordPool : IsTransactionRecord(r)} :
          LET q == ActiveSubsetQuorum(peers)
              first == HandleRecords(HandlerStart, <<record>>, q)
              second == HandleRecords(Afterwards(first), <<record>>, q)
              hash == Deserialize(record.value).val.hash
          IN  first.results = <<"Ok">> =>
                 /\ Len(first.sys.ledger.nodes) = Len(ledger.nodes) + 1
                 /\ Cardinality(NodesWithHash(first.sys.ledger, hash)) = 1
                 /\ second.results = <<"AlreadyExecuted">>
                 /\ second.sys.ledger = first.sys.ledger
                 /\ HandleRecords(HandlerStart, <<record, record>>, q).sys.ledger
                       = first.sys.ledger

\* C3: the child was appended through the handler's proposal, and the record
\* came a second time.
C3_Witness ==
    /\ Len(ledger.nodes) = 2
    /\ Proposal_new(SyncChildName,
                    ProposalData_new(LedgerPath,
                                     OperationAppend(Transaction_to_bytes(SyncChildTx)))).proposal_id
          \in executed
    /\ HandleRecords(HandlerStart,
                     <<PeerRecord(TransactionWithHashKey(SyncChildTx.hash),
                                  Transaction_to_bytes(SyncChildTx))>>,
                     ActiveSubsetQuorum(peers)).results = <<"AlreadyExecuted">>

\* C4: no two nodes of the ledger carry the same hash; an Append proposal
\* for a transaction whose hash is routed leaves the graph as it is under
\* either name, "sync_child" or "new_tx(<hash>)"; and so does a tx record
\* for such a transaction that reaches the handler.
C4_AppendOfRoutedHashIsNoOp ==
    /\ \A i, j \in Indices(ledger) :
          NodeAt(ledger, i).hash = NodeAt(ledger, j).hash => i = j
    /\ \A proposal \in AppendProposals :
          TransactionOf(proposal).hash \in DOMAIN ledger.hash_routes =>
             /\ ExecuteProposal(PushProposal(Sys, proposal), proposal.proposal_id).sys.ledger
                   = ledger
             /\ ExecuteProposal(PushProposal(Sys, proposal), proposal.proposal_id).result
                   = "AlreadyExecuted"
    /\ \A record \in {r \in RecordPool : IsTransactionRecord(r)} :
          Deserialize(record.value).val.hash \in DOMAIN ledger.hash_routes =>
             HandleRecords(HandlerStart, <<record>>, ActiveSubsetQuorum(peers)).sys.ledger
                = ledger

\* C4: the child is in the ledger once, and both the sync handler's proposal
\* for it and publish_tx's have been executed.
C4_Witness ==
    /\ Len(ledger.nodes) = 2
    /\ \A name \in {SyncChildName, NewTxName(SyncChildTx.hash)} :
          Proposal_new(name,
                       ProposalData_new(LedgerPath,
                                        OperationAppend(Transaction_to_bytes(SyncChildTx)))).proposal_id
             \in executed

\* C8: the node at index 0 of a ledger that is not empty has its state
\* entry, also when the sync handler installed it.
C8_GenesisStatePresent ==
    ledger.nodes # <<>> => NodeAt(ledger, 0).state_entry.some

\* C9: for every result of a GetRecord, each record with a tx:: key whose
\* value deserializes makes the handler issue GetRecord(next::tx.hash) once,
\* with the quorum of the moment; a result of one such record is installed
\* with push(tx, None) when the ledger has no nodes and goes through a
\* "sync_child" proposal otherwise.
C9_TransactionRecordHandled ==
    \A records \in GetRecordResults :
        LET q == ActiveSubsetQuorum(peers)
            st == OnGetRecordOk(records)
        IN  /\ \A k \in DOMAIN records :
                  IsTransactionRecord(records[k]) =>
                     LET hash == Deserialize(records[k].value).val.hash IN
                     Count(st.issued, GetRecordQuery(NextTransactionKey(hash), q))
                        = Cardinality({j \in DOMAIN records :
                                          /\ IsTransactionRecord(records[j])
                                          /\ Deserialize(records[j].value).val.hash = hash})
            /\ (Len(records) = 1 /\ IsTransactionRecord(records[1]) /\ ~poisoned) =>
                  LET tx == Deserialize(records[1].value).val
                      proposal == Proposal_new(SyncChildName,
                                     ProposalData_new(LedgerPath,
                                                      OperationAppend(records[1].value)))
                  IN  IF ledger.nodes = <<>>
                      THEN st.sys.ledger = Graph_push(ledger, tx, None).graph
                      ELSE st.sys = ExecuteProposal(PushProposal(Sys, proposal),
                                                    proposal.proposal_id).sys

\* C10: for every result of a GetRecord, each record under the root key or a
\* next:: key makes the handler issue GetRecord(tx::v) for the hash v it
\* carries, with the quorum of the moment; a result of such records only
\* leaves the ledger, the pending proposals and should_broadcast_dag alone.
C10_PointerRecordHandled ==
    \A records \in GetRecordResults :
        LET q == ActiveSubsetQuorum(peers)
            st == OnGetRecordOk(records)
        IN  /\ \A k \in DOMAIN records :
                  IsPointerRecord(records[k]) =>
                     LET v == Hash_new(records[k].value) IN
                     Count(st.issued, GetRecordQuery(TransactionWithHashKey(v), q))
                        = Cardinality({j \in DOMAIN records :
                                          /\ IsPointerRecord(records[j])
                                          /\ Hash_new(records[j].value) = v})
            /\ (\A k \in DOMAIN records : IsPointerRecord(records[k])) => st.sys = Sys

\* C11: a failed GetRecord ends its branch: the query is gone, no query is
\* issued in its place, and the ledger, the pending proposals and
\* should_broadcast_dag are what they were.
C11_FailedGetRecordEndsBranch ==
    [][\A i \in 1 .. MaxQueries :
          GetRecordErr(i) =>
             /\ kad_queries' = RemoveAt(kad_queries, i)
             /\ ledger' = ledger
             /\ pending' = pending
             /\ executed' = executed
             /\ should_broadcast_dag' = should_broadcast_dag]_vars

\* C11: the walk has installed a transaction and its last query has failed.
C11_Witness ==
    /\ kad_queries = <<>>
    /\ ledger.nodes # <<>>
    /\ ~swarm_down

\* C12: whatever the flag was, a failed PutRecord leaves should_broadcast_dag true, and a step
\* that changes the flag is a failed PutRecord: no GetRecord result and no
\* successful PutRecord touches it.
C12_FlagSetByFailedPutRecordOnly ==
    /\ [](OnPutRecordErr(should_broadcast_dag) = TRUE)
    /\ [][/\ PutRecordErr => should_broadcast_dag'
          /\ should_broadcast_dag' # should_broadcast_dag => PutRecordErr]_vars

\* C12: a PutRecord has failed.
C12_Witness == should_broadcast_dag

-----------------------------------------------------------------------------
(* Transaction::execute applied to a transaction from Transaction::new and   *)
(* any prior state entry (SpecExecute).                                      *)

\* The maps from some of the keys to the values.
PartialMaps(keys, values) == UNION {[D -> values] : D \in SUBSET keys}

\* The prev_entry argument of execute.
PriorEntries ==
    {None} \cup {Some(Entry_new(nonces, balances)) :
                    nonces \in PartialMaps(Address, 0 .. MaxTxNonce),
                    balances \in PartialMaps(Address, 0 .. MaxBalance)}

\* T1 of scenario S2: nonce 1, A -> B, value 10, parent root.
ScenarioT1 == Transaction_new(1, "A", "B", 10, <<RootTx.hash>>)

ExecTransactions ==
    {Transaction_new(nonce, sender, recipient, value_finks, <<RootTx.hash>>) :
        nonce \in 0 .. MaxTxNonce, sender \in Address, recipient \in Address,
        value_finks \in 0 .. MaxValue}
    \cup {ScenarioT1}

ExecInit ==
    /\ client_tx \in ExecTransactions
    /\ runtime = Unlocked
    /\ ledger = EmptyGraph
    /\ pending = EmptyMap
    /\ executed = {}
    /\ poisoned = FALSE
    /\ should_broadcast_dag = FALSE
    /\ kad_queries = <<>>
    /\ peers = 0
    /\ dht = EmptyMap
    /\ swarm_down = FALSE
    /\ last = [op |-> "new"]

\* client_tx.execute(prev_entry)
ExecuteTx(prev_entry) ==
    /\ last' = [op |-> "execute", prev |-> prev_entry, ret |-> Execute(client_tx, prev_entry)]
    /\ UNCHANGED <<ledger, pending, executed, poisoned, should_broadcast_dag, kad_queries,
                   peers, dht, client_tx, runtime, swarm_down>>

ExecNext == \E prev_entry \in PriorEntries : ExecuteTx(prev_entry)

SpecExecute == ExecInit /\ [][ExecNext]_vars

\* HashMap::get(..).unwrap_or(&BigUint::zero())
BalanceOf(balances, address) == IF address \in DOMAIN balances THEN balances[address] ELSE 0

\* C13: executed against a prior entry with balances, the transaction gives
\* an entry whose balances are the prior ones with the sender's lowered by
\* value (from 0 when absent) and the recipient's raised by value, so that
\* an address that is both keeps its balance, and whose nonces are the prior
\* ones with nonces[sender] = tx.nonce.
C13_InductiveExecute ==
    (last.op = "execute" /\ last.prev.some /\ DOMAIN last.prev.val.balances # {}) =>
        LET d == client_tx.transaction_data
            prior == last.prev.val
        IN  /\ last.ret # Panic
            /\ DOMAIN last.ret.balances = DOMAIN prior.balances \cup {d.sender, d.recipient}
            /\ \A a \in DOMAIN last.ret.balances :
                  last.ret.balances[a]
                     = BalanceOf(prior.balances, a)
                          - (IF a = d.sender THEN d.value ELSE 0)
                          + (IF a = d.recipient THEN d.value ELSE 0)
            /\ last.ret.nonces = MapPut(prior.nonces, d.sender, d.nonce)

\* C14: executed against no prior entry, or one with empty balances, the
\* transaction gives the entry with the one balance recipient -> value and
\* the one nonce sender -> tx.nonce, whatever nonces the prior entry holds.
C14_BootstrapExecute ==
    (last.op = "execute" /\ (~last.prev.some \/ DOMAIN last.prev.val.balances = {})) =>
        LET d == client_tx.transaction_data IN
        /\ last.ret = Entry_new(MapPut(EmptyMap, d.sender, d.nonce),
                                MapPut(EmptyMap, d.recipient, d.value))
        /\ last.ret = Execute(client_tx, None)

\* C14: the prior entry has no balances and has nonces.
C14_Witness ==
    /\ last.op = "execute"
    /\ last.prev.some
    /\ DOMAIN last.prev.val.balances = {}
    /\ DOMAIN last.prev.val.nonces # {}

\* C15: T1 of scenario S2 executed against the state of the genesis
\* (balances {B: 0}, nonces {A: 0}) returns an entry with balances[B] = 10
\* and nonces[A] = 1; the call does not abort.
C15_ScenarioS2 ==
    (client_tx = ScenarioT1 /\ last.op = "execute"
        /\ last.prev = Some(ExecuteBootstrap(RootTx))) =>
        /\ last.ret # Panic
        /\ last.ret.balances["B"] = 10
        /\ last.ret.nonces["A"] = 1

-----------------------------------------------------------------------------
(* A transaction from Transaction::new, then sign_transaction and           *)
(* register_parental_state in any order (SpecTx).                            *)

\* Entry.hash: the content hash of the entry.
EntryHash(entry) == HashSlice(Serialize(entry))

\* The loop of register_parental_state over parent_entries.
ReceiptMapOf(parent_entries) ==
    [associated_transactions |-> [i \in DOMAIN parent_entries |-> parent_entries[i][1]],
     receipts |-> [i \in DOMAIN parent_entries |->
                      [state_hash |-> EntryHash(parent_entries[i][2]), logs |-> <<>>]]]

\* register_parental_state without the re-hash at its end.
RegisterParentalState_NoRehash(tx, merged_parental_state, parent_entries) ==
    [tx EXCEPT !.transaction_data =
        [tx.transaction_data EXCEPT
            !.parent_state_hash = Some(EntryHash(merged_parental_state)),
            !.parent_receipts = Some(ReceiptMapOf(parent_entries))]]

\* register_parental_state that writes the merged state's hash into every receipt.
RegisterParentalState_MergedReceipts(tx, merged_parental_state, parent_entries) ==
    LET transaction_data ==
            [tx.transaction_data EXCEPT
                !.parent_state_hash = Some(EntryHash(merged_parental_state)),
                !.parent_receipts =
                    Some(ReceiptMapOf([i \in DOMAIN parent_entries |->
                                          <<parent_entries[i][1], merged_parental_state>>]))]
    IN  [tx EXCEPT !.transaction_data = transaction_data,
                   !.hash = TransactionHashOfData(transaction_data)]

\* Transaction::register_parental_state
RegisterParentalState(tx, merged_parental_state, parent_entries) ==
    LET transaction_data ==
            [tx.transaction_data EXCEPT
                !.parent_state_hash = Some(EntryHash(merged_parental_state)),
                !.parent_receipts = Some(ReceiptMapOf(parent_entries))]
    IN  [tx EXCEPT !.transaction_data = transaction_data,
                   !.hash = TransactionHashOfData(transaction_data)]

\* The state entries of two parents.
RootEntry == ExecuteBootstrap(RootTx)

ChildEntry == Execute(ChildTx, Some(RootEntry))

\* The (hash, entry) pairs register_parental_state is called with.
ParentEntryPool == {<<RootTx.hash, RootEntry>>, <<ChildTx.hash, ChildEntry>>}

ParentEntryLists == SeqsUpTo(ParentEntryPool, MaxParents)

MergedEntries == {RootEntry, ChildEntry}

TxInputs ==
    {Transaction_new(nonce, sender, recipient, 0, <<RootTx.hash>>) :
        nonce \in 0 .. MaxTxNonce, sender \in Address, recipient \in Address}

TxInit ==
    /\ client_tx \in TxInputs
    /\ runtime = Unlocked
    /\ ledger = EmptyGraph
    /\ pending = EmptyMap
    /\ executed = {}
    /\ poisoned = FALSE
    /\ should_broadcast_dag = FALSE
    /\ kad_queries = <<>>
    /\ peers = 0
    /\ dht = EmptyMap
    /\ swarm_down = FALSE
    /\ last = [op |-> "new"]

\* sign_transaction(keypair, &mut client_tx)
Sign(keypair) ==
    /\ LET r == SignTransaction(keypair, client_tx) IN
       /\ client_tx' = r.tx
       /\ last' = [op |-> "sign", keypair |-> keypair, ok |-> r.ok]
    /\ UNCHANGED <<ledger, pending, executed, poisoned, should_broadcast_dag, kad_queries,
                   peers, dht, runtime, swarm_down>>

\* client_tx.register_parental_state(merged_parental_state, parent_entries)
Register(merged_parental_state, parent_entries) ==
    /\ client_tx' = RegisterParentalState(client_tx, merged_parental_state, parent_entries)
    /\ last' = [op |-> "register", merged |-> merged_parental_state,
                parent_entries |-> parent_entries]
    /\ UNCHANGED <<ledger, pending, executed, poisoned, should_broadcast_dag, kad_queries,
                   peers, dht, runtime, swarm_down>>

TxNext ==
    \/ \E keypair \in Address : Sign(keypair)
    \/ \E merged \in MergedEntries : \E parent_entries \in ParentEntryLists :
          Register(merged, parent_entries)

SpecTx == TxInit /\ [][TxNext]_vars

\* C16: after Transaction::new and after every register_parental_state, in
\* any order with sign_transaction, the hash of the transaction is the hash
\* of its serialized transaction_data.
C16_HashOfData ==
    client_tx.hash = HashSlice(Serialize(client_tx.transaction_data))

\* C16: a signed transaction has been registered.
C16_Witness ==
    /\ last.op = "register"
    /\ client_tx.signature.some

\* C17: a transaction that carries a signature carries one that verifies
\* against its current hash with the sender's key.
C17_SignatureAlwaysValid ==
    client_tx.signature.some => VerifySignature(client_tx)

\* C18: verify_signature is false without a signature, true right after a
\* successful sign_transaction, and false for a signed transaction whose
\* data is no longer the data that was signed.
C18_VerifySignature ==
    /\ ~client_tx.signature.some => ~VerifySignature(client_tx)
    /\ (last.op = "sign" /\ last.ok) => VerifySignature(client_tx)
    /\ (/\ client_tx.signature.some
        /\ client_tx.signature.val.signed
              # HashSlice(Serialize(client_tx.transaction_data)))
          => ~VerifySignature(client_tx)

\* C18: the transaction was signed and then registered with another state.
C18_Witness ==
    /\ last.op = "register"
    /\ client_tx.signature.some
    /\ client_tx.signature.val.signed # HashSlice(Serialize(client_tx.transaction_data))

\* C19: parent_state_hash is present exactly when parent_receipts is; after
\* register_parental_state it is the hash of the merged entry passed in, and
\* the receipts hold two sequences as long as the parent entries passed in,
\* position i pairing the i-th parent hash with the hash of its entry.
C19_ParentalState ==
    LET d == client_tx.transaction_data IN
    /\ d.parent_state_hash.some <=> d.parent_receipts.some
    /\ last.op = "register" =>
          /\ d.parent_state_hash = Some(EntryHash(last.merged))
          /\ d.parent_receipts.some
          /\ Len(d.parent_receipts.val.associated_transactions) = Len(last.parent_entries)
          /\ Len(d.parent_receipts.val.receipts) = Len(last.parent_entries)
          /\ \A i \in DOMAIN last.parent_entries :
                /\ d.parent_receipts.val.associated_transactions[i] = last.parent_entries[i][1]
                /\ d.parent_receipts.val.receipts[i].state_hash
                      = EntryHash(last.parent_entries[i][2])

\* C19: the transaction was registered with two parents.
C19_Witness ==
    /\ last.op = "register"
    /\ Len(last.parent_entries) = 2
    /\ last.parent_entries[1] # last.parent_entries[2]

-----------------------------------------------------------------------------
(* Further properties of the graph (SpecGraph)                               *)

\* The hashes listed as children of parent.
ChildrenOf(g, parent) == {g.node_children[parent][k] : k \in DOMAIN g.node_children[parent]}

-----------------------------------------------------------------------------
(* The persisted graph: a node starts with read_from_disk on an empty store, *)
(* pushes, writes the graph to the store and loads it again, in full or      *)
(* header-only. ledger.db.val is what the store holds.                       *)

DiskInit ==
    /\ ledger = Graph_read_from_disk(EmptyMap)
    /\ IdleNode
    /\ last = [op |-> "read", read_all |-> TRUE]

DiskPush(transaction, state_entry) ==
    /\ Len(ledger.nodes) < MaxNodes
    /\ LET r == Graph_push(ledger, transaction, state_entry) IN
       /\ ledger' = r.graph
       /\ last' = [op |-> "push", tx |-> transaction, ret |-> r.index]
    /\ UNCHANGED nodeVars

WriteToDisk ==
    /\ LET r == Graph_write_to_disk(ledger) IN
       /\ ledger' = r.graph
       /\ last' = [op |-> "write", ok |-> r.ok]
    /\ UNCHANGED nodeVars

\* The graph is dropped and loaded again from the store.
ReadFromDisk(read_all) ==
    /\ ledger' = Graph_read_some_from_disk(read_all, ledger.db.val)
    /\ last' = [op |-> "read", read_all |-> read_all]
    /\ UNCHANGED nodeVars

DiskGet(index) ==
    /\ index \in 0 .. Len(ledger.nodes) - 1
    /\ LET r == Graph_get(ledger, index) IN
       /\ ledger' = r.graph
       /\ last' = [op |-> "get", index |-> index, ret |-> r.node]
    /\ UNCHANGED nodeVars

DiskGetWithHash(hash) ==
    /\ last' = [op |-> "get_with_hash", hash |-> hash, ret |-> Graph_get_with_hash(ledger, hash)]
    /\ UNCHANGED ledger
    /\ UNCHANGED nodeVars

DiskNext ==
    \/ \E t \in TxPool : \E e \in EntriesFor(t) : DiskPush(t, e)
    \/ WriteToDisk
    \/ \E read_all \in BOOLEAN : ReadFromDisk(read_all)
    \/ \E i \in 0 .. MaxNodes : DiskGet(i)
    \/ \E t \in TxPool : DiskGetWithHash(t.hash)

SpecDisk == DiskInit /\ [][DiskNext]_vars

\* C21: write_to_disk on the graph succeeds and afterwards every index of the
\* graph has its decimal key in the store, a key that was not there before
\* holds the node of its index, and a key that was there holds what it held.
C21_WriteStoresEveryNode ==
    LET w == Graph_write_to_disk(ledger)
        before == ledger.db.val
        after == w.graph.db.val
    IN  /\ w.ok
        /\ \A i \in Indices(ledger) :
              /\ IndexKey(i) \in DOMAIN after
              /\ IndexKey(i) \notin DOMAIN before
                    => Node_from_bytes(after[IndexKey(i)]) = NodeAt(ledger, i)
        /\ \A k \in DOMAIN before : k \in DOMAIN after /\ after[k] = before[k]

\* C22: writing the graph and reading it back in full gives the same nodes in
\* the same order, the same hash_routes and the same node_children.
C22_RoundTrip ==
    LET w == Graph_write_to_disk(ledger)
        r == Graph_read_from_disk(w.graph.db.val)
    IN  /\ r.nodes = ledger.nodes
        /\ r.hash_routes = ledger.hash_routes
        /\ r.node_children = ledger.node_children

\* C23: a partial load of the store gives a graph whose node 0 has the state
\* entry the store holds for it and whose other nodes have none.
C23_PartialLoadKeepsGenesisEntry ==
    LET r == Graph_read_partial_from_disk(ledger.db.val) IN
    \A i \in Indices(r) :
        IF i = 0
        THEN NodeAt(r, 0).state_entry = Node_from_bytes(ledger.db.val[IndexKey(0)]).state_entry
        ELSE NodeAt(r, i).state_entry = None

\* C25: for a header-only node whose key the store holds, get and
\* get_with_hash both return the node with the state entry of the store; a
\* hash without a route gets NoLookupResults.
C25_GetsHydrate ==
    /\ \A i \in Indices(ledger) :
          LET node == NodeAt(ledger, i)
              stored == Node_from_bytes(ledger.db.val[IndexKey(i)])
          IN  (~node.state_entry.some /\ IndexKey(i) \in DOMAIN ledger.db.val) =>
                 /\ Graph_get(ledger, i).node = [node EXCEPT !.state_entry = stored.state_entry]
                 /\ ledger.hash_routes[node.hash] = i =>
                       Graph_get_with_hash(ledger, node.hash).node
                          = [node EXCEPT !.state_entry = stored.state_entry]
    /\ \A t \in TxPool :
          t.hash \notin DOMAIN ledger.hash_routes =>
             Graph_get_with_hash(ledger, t.hash) = [ok |-> FALSE, error |-> "NoLookupResults"]

\* C24: update(i, tx, entry) on the graph puts the node {tx, entry, tx.hash}
\* at index i, leaves the other nodes, the number of nodes, hash_routes and
\* node_children as they were, and get(i) then returns a node holding tx.
C24_UpdateReplacesOneNode ==
    \A i \in Indices(ledger) : \A t \in TxPool : \A e \in EntriesFor(t) :
        LET g == Graph_update(ledger, i, t, e) IN
        /\ NodeAt(g, i) = [transaction |-> t, state_entry |-> e, hash |-> t.hash]
        /\ Len(g.nodes) = Len(ledger.nodes)
        /\ \A j \in Indices(ledger) \ {i} : NodeAt(g, j) = NodeAt(ledger, j)
        /\ g.hash_routes = ledger.hash_routes
        /\ g.node_children = ledger.node_children
        /\ Graph_get(g, i).node.transaction = t

\* C24: an update has put a transaction whose hash has no route at an index
\* of a graph of two nodes.
C24_Witness ==
    /\ last.op = "update"
    /\ Len(ledger.nodes) = 2
    /\ NodeAt(ledger, last.index).transaction = last.tx
    /\ last.tx.hash \notin DOMAIN ledger.hash_routes

\* C26: push on the graph returns the number of nodes there were, leaves one
\* node more with the pushed node at the returned index, and routes the hash
\* of the transaction to that index; the push that ran last returned the
\* index of the last node.
C26_PushReturnsIndex ==
    /\ \A t \in TxPool : \A e \in EntriesFor(t) :
          LET r == Graph_push(ledger, t, e) IN
          /\ r.index = Len(ledger.nodes)
          /\ Len(r.graph.nodes) = Len(ledger.nodes) + 1
          /\ SubSeq(r.graph.nodes, 1, Len(ledger.nodes)) = ledger.nodes
          /\ NodeAt(r.graph, r.index) = Node_new(t, e)
          /\ r.graph.hash_routes[t.hash] = r.index
    /\ last.op = "push" =>
          /\ last.ret = Len(ledger.nodes) - 1
          /\ ledger.hash_routes[last.tx.hash] = last.ret

\* C26: the first push on a graph made by Graph::new has returned 1.
C26_Witness ==
    /\ last.op = "push"
    /\ last.ret = 1
    /\ NodeAt(ledger, 1).transaction = last.tx

-----------------------------------------------------------------------------
(* The merge of the parents' state entries (section 4.1), as the fold        *)
(* resolve_parent_nodes makes over the parents in the order they are listed. *)

\* The nonces of both maps, the larger where both have one.
MaxNonces(a, b) ==
    [x \in (DOMAIN a) \cup (DOMAIN b) |->
        IF x \notin DOMAIN b THEN a[x]
        ELSE IF x \notin DOMAIN a THEN b[x]
        ELSE IF a[x] >= b[x] THEN a[x] ELSE b[x]]

\* One step of the fold per parent: top is the entry with the largest state
\* hash so far, nonces the largest nonces so far.
RECURSIVE MergeFold(_, _, _)
MergeFold(top, nonces, rest) ==
    IF rest = <<>> THEN Entry_new(nonces, top.balances)
    ELSE LET entry == Head(rest) IN
         MergeFold(IF EntryRank(entry) > EntryRank(top) THEN entry ELSE top,
                   MaxNonces(nonces, entry.nonces), Tail(rest))

\* The last-seen policy: the balances of the parent listed last.
MergeParentEntries_LastSeen(parent_entries) ==
    IF parent_entries = <<>> THEN Entry_new(EmptyMap, EmptyMap)
    ELSE LET merged == MergeFold(Head(parent_entries), Head(parent_entries).nonces,
                                 Tail(parent_entries))
         IN  Entry_new(merged.nonces, parent_entries[Len(parent_entries)].balances)

\* The merged entry of the parents' entries, listed in the parents' order.
MergeParentEntries(parent_entries) ==
    IF parent_entries = <<>> THEN Entry_new(EmptyMap, EmptyMap)
    ELSE MergeFold(Head(parent_entries), Head(parent_entries).nonces, Tail(parent_entries))

\* The parents' entries the merge is run on.
MergePool ==
    {Entry_new(nonces, balances) :
        nonces \in PartialMaps({"A"}, 0 .. MaxTxNonce),
        balances \in PartialMaps({"B"}, 0 .. MaxBalance)}
    \cup {Entry_new([a \in Address |-> IF a = "A" THEN 0 ELSE MaxTxNonce],
                    [a \in Address |-> IF a = "A" THEN MaxBalance ELSE 0])}

MergeInit ==
    /\ \E parent_entries \in SeqsUpTo(MergePool, MaxParents) :
          last = [op |-> "parents", parent_entries |-> parent_entries]
    /\ ledger = EmptyGraph
    /\ IdleNode

Merge ==
    /\ last.op = "parents"
    /\ last' = [op |-> "merge", parent_entries |-> last.parent_entries,
                ret |-> MergeParentEntries(last.parent_entries)]
    /\ UNCHANGED ledger
    /\ UNCHANGED nodeVars

MergeNext == Merge

SpecMerge == MergeInit /\ [][MergeNext]_vars

-----------------------------------------------------------------------------
(* The quorum of the GetRecord queries (SpecSync)                            *)

\* Half of n, rounded up.
HalfRoundedUp(n) == (n + 1) \div 2

-----------------------------------------------------------------------------
(* Transactions without parents (Spec)                                       *)

\* Signed transactions that name no parent; Transaction::new leaves genesis
\* false.
ZeroParentTxs ==
    {SignTransaction(sender, Transaction_new(nonce, sender, recipient, 0, <<>>)).tx :
        nonce \in 0 .. MaxTxNonce, sender \in Address, recipient \in Address}

\* C30: on a ledger that has a node, neither a sync event that carries a
\* signed transaction without parents and with genesis = false nor
\* execute_proposal on an Append proposal for it changes the graph, and
\* execute_proposal answers NoParents; no node after the first is such a
\* transaction.
C30_ZeroParentsRejected ==
    ledger.nodes # <<>> =>
        /\ \A z \in ZeroParentTxs :
              /\ ~z.genesis /\ z.transaction_data.parents = <<>>
              /\ OnGetRecordOk(<<PeerRecord(TransactionWithHashKey(z.hash),
                                            Transaction_to_bytes(z))>>).sys.ledger = ledger
              /\ \A name \in {SyncChildName, NewTxName(z.hash)} :
                    LET proposal == Proposal_new(name,
                                        ProposalData_new(LedgerPath,
                                            OperationAppend(Transaction_to_bytes(z))))
                        r == ExecuteProposal(PushProposal(Sys, proposal), proposal.proposal_id)
                    IN  /\ r.sys.ledger = ledger
                        /\ r.result = "NoParents"
        /\ \A i \in Indices(ledger) \ {0} :
              ParentsOf(NodeAt(ledger, i).transaction) # {} \/ NodeAt(ledger, i).transaction.genesis

\* C30: the ledger has two nodes when the transaction without parents arrives.
C30_Witness ==
    /\ Len(ledger.nodes) = 2
    /\ ~poisoned
    /\ \E z \in ZeroParentTxs :
          Len(OnGetRecordOk(<<PeerRecord(TransactionWithHashKey(z.hash),
                                         Transaction_to_bytes(z))>>).results) = 1

-----------------------------------------------------------------------------
(* The System lock: the sync handler and publish_tx take runtime.write(),    *)
(* the get RPC takes runtime.read(). A critical section is a sequence of     *)
(* steps; Graph::push is three of them (nodes.push, hash_routes.insert, the  *)
(* loop over the parents).                                                   *)

\* Two parents, the first of which has no children when the record arrives.
SyncMergeTx == SignTransaction("A", MergeTx).tx

\* The transaction records the handler is given.
LockRecords ==
    {PeerRecord(TransactionWithHashKey(tx.hash), Transaction_to_bytes(tx)) :
        tx \in {GenesisTx, SyncChildTx, SyncMergeTx, OverdraftTx}}

Idle == [pc |-> "idle"]

LockThreads == {"sync", "publish", "get"}

\* The variables no step of the lock model changes.
lockFrame == <<should_broadcast_dag, kad_queries, peers, dht, client_tx, swarm_down, last>>

LockInit ==
    /\ ledger \in {EmptyGraph, Graph_new(GenesisTx)}
    /\ pending = EmptyMap
    /\ executed = {}
    /\ poisoned = FALSE
    /\ should_broadcast_dag = FALSE
    /\ kad_queries = <<>>
    /\ peers = 0
    /\ dht = EmptyMap
    /\ client_tx = None
    /\ swarm_down = FALSE
    /\ last = NoOp
    /\ runtime = [writer |-> None, readers |-> {},
                  threads |-> [t \in LockThreads |-> Idle],
                  acquired |-> <<[thread |-> "init", sys |-> Sys]>>]

\* runtime.write() returns Ok: no writer, no reader, not poisoned.
CanWrite ==
    /\ ~runtime.writer.some
    /\ runtime.readers = {}
    /\ ~poisoned
    /\ Len(runtime.acquired) <= MaxAcquires

\* if let Ok(mut rt) = self.runtime.write(), for a record that deserialized.
SyncAcquire(record) ==
    /\ runtime.threads["sync"].pc = "idle"
    /\ CanWrite
    /\ runtime' = [runtime EXCEPT
                     !.writer = Some("sync"),
                     !.threads["sync"] = [pc |-> "locked", tx |-> Deserialize(record.value).val,
                                          value |-> record.value],
                     !.acquired = Append(@, [thread |-> "sync",
                                             tx |-> Deserialize(record.value).val,
                                             value |-> record.value])]
    /\ UNCHANGED <<ledger, pending, executed, poisoned>>
    /\ UNCHANGED lockFrame

\* nodes.is_empty(): the first step of push(tx, None); otherwise push_proposal.
SyncBranch ==
    LET me == runtime.threads["sync"] IN
    /\ me.pc = "locked"
    /\ IF ledger.nodes = <<>>
       THEN /\ ledger' = [ledger EXCEPT !.nodes = Append(@, Node_new(me.tx, None))]
            /\ runtime' = [runtime EXCEPT !.threads["sync"] =
                              [pc |-> "node_pushed", tx |-> me.tx, after |-> None]]
            /\ UNCHANGED pending
       ELSE LET proposal == Proposal_new(SyncChildName,
                                ProposalData_new(LedgerPath, OperationAppend(me.value)))
            IN  /\ pending' = PushProposal(Sys, proposal).pending
                /\ runtime' = [runtime EXCEPT !.threads["sync"] =
                                  [pc |-> "proposed", tx |-> me.tx, id |-> proposal.proposal_id]]
                /\ UNCHANGED ledger
    /\ UNCHANGED <<executed, poisoned>>
    /\ UNCHANGED lockFrame

\* rt.execute_proposal(id): up to the first step of the push it ends with; a
\* panic unwinds the thread, which drops the guard and poisons the lock.
SyncExecute ==
    LET me == runtime.threads["sync"]
        r == ExecuteProposal(Sys, me.id)
    IN  /\ me.pc = "proposed"
        /\ IF r.result = "Panic"
           THEN /\ poisoned' = TRUE
                /\ runtime' = [runtime EXCEPT !.writer = None,
                                              !.threads["sync"] = [pc |-> "panicked"]]
                /\ UNCHANGED <<ledger, pending, executed>>
           ELSE IF r.result = "Ok"
           THEN /\ ledger' = [ledger EXCEPT !.nodes = Append(@, r.sys.ledger.nodes[Len(r.sys.ledger.nodes)])]
                /\ runtime' = [runtime EXCEPT !.threads["sync"] =
                                  [pc |-> "node_pushed", tx |-> me.tx, after |-> Some(r.sys)]]
                /\ UNCHANGED <<pending, executed, poisoned>>
           ELSE /\ pending' = r.sys.pending
                /\ executed' = r.sys.executed
                /\ runtime' = [runtime EXCEPT !.threads["sync"] = [pc |-> "finished"]]
                /\ UNCHANGED <<ledger, poisoned>>
        /\ UNCHANGED lockFrame

\* self.hash_routes.insert(transaction_hash, self.nodes.len() - 1)
SyncPushRoute ==
    LET me == runtime.threads["sync"] IN
    /\ me.pc = "node_pushed"
    /\ ledger' = [ledger EXCEPT !.hash_routes = MapPut(@, me.tx.hash, Len(ledger.nodes) - 1)]
    /\ runtime' = [runtime EXCEPT !.threads["sync"] = [me EXCEPT !.pc = "routed"]]
    /\ UNCHANGED <<pending, executed, poisoned>>
    /\ UNCHANGED lockFrame

\* The loop over the parents, and the end of execute_proposal when the push
\* was its last step.
SyncPushChildren ==
    LET me == runtime.threads["sync"] IN
    /\ me.pc = "routed"
    /\ ledger' = [ledger EXCEPT !.node_children =
                     PushChildren(@, me.tx.transaction_data.parents, me.tx.hash)]
    /\ pending' = IF me.after.some THEN me.after.val.pending ELSE pending
    /\ executed' = IF me.after.some THEN me.after.val.executed ELSE executed
    /\ runtime' = [runtime EXCEPT !.threads["sync"] = [pc |-> "finished"]]
    /\ UNCHANGED poisoned
    /\ UNCHANGED lockFrame

\* The write guard goes out of scope.
SyncRelease ==
    /\ runtime.threads["sync"].pc = "finished"
    /\ runtime' = [runtime EXCEPT !.writer = None, !.threads["sync"] = Idle]
    /\ UNCHANGED <<ledger, pending, executed, poisoned>>
    /\ UNCHANGED lockFrame

\* publish_tx: self.runtime.write()
PublishAcquire(tx) ==
    /\ runtime.threads["publish"].pc = "idle"
    /\ CanWrite
    /\ runtime' = [runtime EXCEPT
                     !.writer = Some("publish"),
                     !.threads["publish"] = [pc |-> "locked", tx |-> tx],
                     !.acquired = Append(@, [thread |-> "publish", tx |-> tx])]
    /\ UNCHANGED <<ledger, pending, executed, poisoned>>
    /\ UNCHANGED lockFrame

\* publish_tx: rt.register_proposal(proposal); the guard is dropped on return.
PublishRegister ==
    LET me == runtime.threads["publish"]
        proposal == Proposal_new(NewTxName(me.tx.hash),
                        ProposalData_new(LedgerPath, OperationAppend(Transaction_to_bytes(me.tx))))
    IN  /\ me.pc = "locked"
        /\ pending' = RegisterProposal(Sys, proposal).pending
        /\ runtime' = [runtime EXCEPT !.writer = None, !.threads["publish"] = Idle]
        /\ UNCHANGED <<ledger, executed, poisoned>>
        /\ UNCHANGED lockFrame

\* DagImpl::get: self.runtime.read() returns Ok: no writer, not poisoned.
GetAcquire ==
    /\ runtime.threads["get"].pc = "idle"
    /\ ~runtime.writer.some
    /\ ~poisoned
    /\ runtime' = [runtime EXCEPT !.readers = @ \cup {"get"},
                                  !.threads["get"] = [pc |-> "reading"]]
    /\ UNCHANGED <<ledger, pending, executed, poisoned>>
    /\ UNCHANGED lockFrame

\* DagImpl::get: the loop that collects the nodes, and what the reader sees of
\* the graph while it holds the guard.
GetCollect ==
    /\ runtime.threads["get"].pc = "reading"
    /\ runtime' = [runtime EXCEPT !.threads["get"] = [pc |-> "observed", graph |-> ledger]]
    /\ UNCHANGED <<ledger, pending, executed, poisoned>>
    /\ UNCHANGED lockFrame

\* DagImpl::get returns; the read guard is dropped.
GetRelease ==
    /\ runtime.threads["get"].pc = "observed"
    /\ runtime' = [runtime EXCEPT !.readers = @ \ {"get"}, !.threads["get"] = Idle]
    /\ UNCHANGED <<ledger, pending, executed, poisoned>>
    /\ UNCHANGED lockFrame

LockNext ==
    \/ \E record \in LockRecords : SyncAcquire(record)
    \/ SyncBranch
    \/ SyncExecute
    \/ SyncPushRoute
    \/ SyncPushChildren
    \/ SyncRelease
    \/ \E tx \in MemPool : PublishAcquire(tx)
    \/ PublishRegister
    \/ GetAcquire
    \/ GetCollect
    \/ GetRelease

SpecLock == LockInit /\ [][LockNext]_vars

\* The writers of runtime.acquired applied one at a time, each as a whole.
RECURSIVE ApplyWriters(_, _)
ApplyWriters(st, writers) ==
    IF writers = <<>> THEN st
    ELSE LET w == Head(writers)
             next == IF w.thread = "sync"
                     THEN InstallTransaction(st, w.tx, w.value)
                     ELSE [st EXCEPT !.sys = RegisterProposal(st.sys,
                              Proposal_new(NewTxName(w.tx.hash),
                                  ProposalData_new(LedgerPath,
                                      OperationAppend(Transaction_to_bytes(w.tx)))))]
         IN  ApplyWriters(next, Tail(writers))

\* Every node of g after the first n has its route and is listed under each
\* of its parents.
WholePushes(g, n) ==
    \A i \in Indices(g) :
        i >= n =>
           /\ NodeAt(g, i).hash \in DOMAIN g.hash_routes
           /\ \A p \in ParentsOf(NodeAt(g, i).transaction) :
                 p \in DOMAIN g.node_children /\ NodeAt(g, i).hash \in ChildrenOf(g, p)

\* A reader holds the lock only while no writer does, and what it has seen is
\* the graph as the last writer left it.
ReadersSeeNoPartialPush ==
    /\ runtime.readers # {} => ~runtime.writer.some
    /\ runtime.threads["get"].pc = "observed" => runtime.threads["get"].graph = ledger

\* When no writer holds the lock, the System is what the writers give when
\* they run one at a time in the order in which they acquired the lock.
WritersApplyInAcquisitionOrder ==
    ~runtime.writer.some =>
        LET start == [sys |-> runtime.acquired[1].sys, poisoned |-> FALSE, issued |-> <<>>,
                      results |-> <<>>, flow |-> "running"]
            serial == ApplyWriters(start, Tail(runtime.acquired))
        IN  /\ Sys = serial.sys
            /\ poisoned = serial.poisoned

\* C29: the graph a reader sees has, for every node a writer appended, the
\* route of the node and the node among the children of each of its parents;
\* no reader sees a critical section half done; and the System is what the
\* writers give one at a time in lock-acquisition order.
C29_ReadersSeeWholePushes ==
    /\ runtime.threads["get"].pc = "observed" =>
          WholePushes(runtime.threads["get"].graph, Len(runtime.acquired[1].sys.ledger.nodes))
    /\ ReadersSeeNoPartialPush
    /\ WritersApplyInAcquisitionOrder

-----------------------------------------------------------------------------
(* The create_transaction RPC (DagImpl::create_tx), as a function of the     *)
(* ledger under the read lock and of the strings the caller sends.           *)

\* The strings a caller sends as the value of a transaction.
ValueStrings == {"", "0", "1"}

\* BigUint::from_bytes_be(&value.into_bytes()): the bytes of the string, read
\* as a big-endian number; the empty string is 0 and a one-character string
\* is its character code.
ValueFromString(value) == IF value = "" THEN 0 ELSE IF value = "0" THEN 48 ELSE 49

\* The children of a node that are routed and have no state entry.
UnresolvedChildren(g, hash) ==
    IF hash \notin DOMAIN g.node_children THEN <<>>
    ELSE SelectSeq(g.node_children[hash],
                   LAMBDA child : /\ child \in DOMAIN g.hash_routes
                                  /\ ~NodeAt(g, g.hash_routes[child]).state_entry.some)

\* Graph::obtain_executed_head: the most recent node with a state entry and
\* no unresolved children.
ObtainExecutedHead(g) ==
    LET tips == {i \in Indices(g) :
                    /\ Graph_get(g, i).node.state_entry.some
                    /\ UnresolvedChildren(g, NodeAt(g, i).hash) = <<>>}
    IN  IF tips = {} THEN None
        ELSE Some(Graph_get(g, CHOOSE i \in tips : \A j \in tips : j <= i).node)

\* The per-parent entries resolve_parent_nodes returns with the merged entry.
ResolvedParentEntries(g, parents) ==
    [i \in DOMAIN parents |->
        <<parents[i], Graph_get(g, g.hash_routes[parents[i]]).node.state_entry.val>>]

\* create_tx that reuses the nonce the head entry records.
NextNonce_Recorded(head_entry, sender) ==
    IF sender \in DOMAIN head_entry.nonces THEN head_entry.nonces[sender] ELSE 0

\* The nonce create_tx gives the sender: one more than the head entry records.
NextNonce(head_entry, sender) ==
    IF sender \in DOMAIN head_entry.nonces THEN head_entry.nonces[sender] + 1 ELSE 0

\* The parents create_tx collects: the unresolved children of the head.
CreateTxParents(g, head) == UnresolvedChildren(g, head.hash)

\* DagImpl::create_tx
CreateTx(g, sender, recipient, value) ==
    LET head == ObtainExecutedHead(g) IN
    IF ~head.some \/ ~head.val.state_entry.some
    THEN [ok |-> FALSE, error |-> "UnableToObtainStateRef"]
    ELSE
    LET head_entry == head.val.state_entry.val
        parent_hashes == CreateTxParents(g, head.val)
        transaction == Transaction_new(NextNonce(head_entry, sender), sender, recipient,
                                       ValueFromString(value), parent_hashes)
        resolved == ResolveParentNodes(g, parent_hashes)
    IN  IF ~resolved.ok THEN [ok |-> FALSE, error |-> "UnableToObtainStateRef"]
        ELSE [ok |-> TRUE,
              tx |-> RegisterParentalState(transaction, resolved.merged,
                                           ResolvedParentEntries(g, parent_hashes))]

\* C31: every transaction create_tx returns that is not a genesis transaction
\* names at least one parent, and every parent it names is the hash of a node
\* of the ledger at the time of the call.
C31_CreatedTxHasLedgerParents ==
    \A sender \in Address, recipient \in Address, value \in ValueStrings :
        LET r == CreateTx(ledger, sender, recipient, value) IN
        (r.ok /\ ~r.tx.genesis) =>
            /\ r.tx.transaction_data.parents # <<>>
            /\ \A p \in ParentsOf(r.tx) : \E i \in Indices(ledger) : NodeAt(ledger, i).hash = p

-----------------------------------------------------------------------------
(* sign_transaction, create_tx and execute: further properties               *)

\* C32: sign_transaction with a keypair whose address is not the sender's
\* answers an error and leaves the transaction as it was, data, hash and
\* signature; with the sender's keypair it answers Ok, sets a signature by that
\* keypair over the transaction's hash, and keeps the data and the hash.
C32_SignChecksSender ==
    /\ \A keypair \in Address :
          LET r == SignTransaction(keypair, client_tx) IN
          IF keypair # client_tx.transaction_data.sender
          THEN ~r.ok /\ r.tx = client_tx
          ELSE /\ r.ok
               /\ r.tx.signature = Some([public_key |-> keypair, signed |-> client_tx.hash])
               /\ r.tx.transaction_data = client_tx.transaction_data
               /\ r.tx.hash = client_tx.hash
    /\ last.op = "sign" => (last.ok <=> last.keypair = client_tx.transaction_data.sender)

\* C32: a signed transaction has just been refused a second signature by a
\* keypair that is not the sender's.
C32_Witness ==
    /\ last.op = "sign"
    /\ ~last.ok
    /\ client_tx.signature.some
    /\ client_tx.signature.val.public_key # last.keypair

\* The sum of the balances of a map.
RECURSIVE SumBalances(_)
SumBalances(balances) ==
    IF DOMAIN balances = {} THEN 0
    ELSE LET a == CHOOSE x \in DOMAIN balances : TRUE IN
         balances[a] + SumBalances([x \in (DOMAIN balances) \ {a} |-> balances[x]])

\* C34: executed against a prior entry with balances in which the sender
\* holds at least the value, the transaction gives an entry whose balances sum
\* to what the prior balances sum to, also when the sender is the recipient.
C34_ValueConserved ==
    (/\ last.op = "execute"
     /\ last.prev.some
     /\ DOMAIN last.prev.val.balances # {}
     /\ BalanceOf(last.prev.val.balances, client_tx.transaction_data.sender)
            >= client_tx.transaction_data.value) =>
        /\ last.ret # Panic
        /\ SumBalances(last.ret.balances) = SumBalances(last.prev.val.balances)

\* C34: a transaction of value 1 from an address to itself has been executed
\* against an entry in which that address holds 1.
C34_Witness ==
    /\ last.op = "execute"
    /\ last.prev.some
    /\ client_tx.transaction_data.sender = client_tx.transaction_data.recipient
    /\ client_tx.transaction_data.value = 1
    /\ BalanceOf(last.prev.val.balances, client_tx.transaction_data.sender) = 1
    /\ last.ret # Panic

-----------------------------------------------------------------------------
(* The store: further properties (SpecDisk)                                  *)

\* C35: a second write_to_disk on a graph that did not change leaves the
\* store, its keys and the value under each key, as the first call left it.
C35_WriteIsIdempotent ==
    LET first == Graph_write_to_disk(ledger)
        second == Graph_write_to_disk(first.graph)
    IN  first.ok =>
            /\ second.ok
            /\ DOMAIN second.graph.db.val = DOMAIN first.graph.db.val
            /\ \A k \in DOMAIN first.graph.db.val :
                  second.graph.db.val[k] = first.graph.db.val[k]

\* How many times the nodes of a graph that carry a hash name a parent.
ParentOccurrences(g, hash, parent) ==
    Cardinality({<<i, k>> \in Indices(g) \X (1 .. MaxParents) :
                    /\ NodeAt(g, i).hash = hash
                    /\ k \in DOMAIN NodeAt(g, i).transaction.transaction_data.parents
                    /\ NodeAt(g, i).transaction.transaction_data.parents[k] = parent})

\* C36: in the graph read_from_disk or read_partial_from_disk builds from the
\* store, the hash of every loaded node is listed among the children of each
\* of its parents once per occurrence of the parent in its parents list, and
\* never twice for one occurrence.
C36_LoadedChildrenListedOnce ==
    \A read_all \in BOOLEAN :
        LET g == Graph_read_some_from_disk(read_all, ledger.db.val) IN
        \A i \in Indices(g) :
            \A p \in ParentsOf(NodeAt(g, i).transaction) :
                /\ p \in DOMAIN g.node_children
                /\ Count(g.node_children[p], NodeAt(g, i).hash)
                      = ParentOccurrences(g, NodeAt(g, i).hash, p)

-----------------------------------------------------------------------------
(* Loading stores of up to MaxStored nodes, each node under the decimal      *)
(* string of its index (SpecScan).                                           *)

MaxStored == 11

\* The transaction of the node stored under index i: the first has the zero
\* hash for parent, the others the first.
StoredTx(i, sender, recipient) ==
    IF i = 0 THEN Transaction_new(0, sender, recipient, 0, <<ZeroHash>>)
    ELSE Transaction_new(i, sender, recipient, 0,
                         <<Transaction_new(0, sender, recipient, 0, <<ZeroHash>>).hash>>)

\* A store that holds n nodes, node i under the key i.to_string().
StoreOf(n, sender, recipient) ==
    LET keys == {IndexKey(i) : i \in 0 .. n - 1}
        IndexOf(k) == CHOOSE i \in 0 .. n - 1 : IndexKey(i) = k
    IN  [k \in keys |->
            Node_to_bytes(Node_new(StoredTx(IndexOf(k), sender, recipient),
                                   Some(ExecuteBootstrap(StoredTx(IndexOf(k), sender, recipient)))))]

ScanInit ==
    /\ \E n \in 0 .. MaxStored, sender \in Address, recipient \in Address :
          ledger = Graph_read_from_disk(StoreOf(n, sender, recipient))
    /\ IdleNode
    /\ last = [op |-> "open"]

ScanNext == \E read_all \in BOOLEAN : ReadFromDisk(read_all)

SpecScan == ScanInit /\ [][ScanNext]_vars

\* C37: read_from_disk puts the node stored under the decimal key of i at
\* index i of nodes and routes its hash to i, for every stored i, also when
\* the store holds more than ten nodes.
C37_LoadKeepsIndexOrder ==
    LET store == ledger.db.val
        g == Graph_read_from_disk(store)
    IN  \A i \in 0 .. MaxStored :
            IndexKey(i) \in DOMAIN store =>
                /\ i < Len(g.nodes)
                /\ NodeAt(g, i) = Node_from_bytes(store[IndexKey(i)])
                /\ g.hash_routes[Node_from_bytes(store[IndexKey(i)]).hash] = i

-----------------------------------------------------------------------------
(* The sync handler: further properties (Spec, SpecSync)                     *)

\* A record under a tx:: key whose value does not deserialize.
IsMalformedTransactionRecord(record) ==
    /\ record.key # RootKey
    /\ record.key.family = "tx"
    /\ ~Deserialize(record.value).ok

\* C38: for every result of a GetRecord that has a tx:: record whose value
\* does not deserialize, the handler leaves the System and issues the queries
\* exactly as it does for the same result without the malformed records.
C38_MalformedRecordOnlyDropped ==
    \A records \in GetRecordResults :
        LET others == SelectSeq(records, LAMBDA r : ~IsMalformedTransactionRecord(r))
            st == OnGetRecordOk(records)
            expected == OnGetRecordOk(others)
        IN  (\E k \in DOMAIN records : IsMalformedTransactionRecord(records[k])) =>
                /\ st.sys = expected.sys
                /\ st.issued = expected.issued

\* The records a peer can store under a tx:: key: the value is a serialized
\* transaction and the key is built from any hash, that of the value or not.
TransactionRecords ==
    {PeerRecord(TransactionWithHashKey(keyed.hash), Transaction_to_bytes(stored)) :
        keyed \in {GenesisTx, SyncChildTx}, stored \in {GenesisTx, SyncChildTx}}

\* C39: for every record stored under a key tx::h, each node the handler adds
\* to the ledger has hash h, and each next:: query it issues is for h.
C39_InstalledHashIsKeyHash ==
    \A record \in TransactionRecords :
        LET st == OnGetRecordOk(<<record>>)
            h == record.key.hash
            g == st.sys.ledger
        IN  /\ \A i \in Indices(g) : i >= Len(ledger.nodes) => NodeAt(g, i).hash = h
            /\ \A k \in DOMAIN st.issued :
                  st.issued[k].key.family = "next" => st.issued[k].key = NextTransactionKey(h)

-----------------------------------------------------------------------------
(* One walk of the sync handler against a fixed set of DHT records: the      *)
(* root-pointer query is outstanding, every outstanding query is answered    *)
(* once, with the record under its key or with an error, and nothing else    *)
(* happens (SpecWalk).                                                       *)

\* The records of a peer's DAG together with a successor record, under the
\* next:: key of its last transaction, that points back to its first.
LoopedRecords(dag) ==
    MapPut(PublishedRecords(dag), NextTransactionKey(dag[Len(dag)].hash), HashBytes(dag[1].hash))

\* The fixed sets of records the walk runs against.
RecordSets ==
    {PublishedRecords(dag) : dag \in PeerDags} \cup {LoopedRecords(dag) : dag \in PeerDags}

WalkInit ==
    /\ ledger \in {EmptyGraph, Graph_new(GenesisTx)}
    /\ pending = EmptyMap
    /\ executed = {}
    /\ poisoned = FALSE
    /\ should_broadcast_dag = FALSE
    /\ peers \in 0 .. MaxPeers
    /\ kad_queries = <<GetRecordQuery(RootKey, ActiveSubsetQuorum(peers))>>
    /\ dht \in RecordSets
    /\ client_tx = None
    /\ runtime = Unlocked
    /\ swarm_down = FALSE
    /\ last = NoOp

WalkNext ==
    \/ \E i \in 1 .. MaxQueries : SyncAnswer(i)
    \/ \E i \in 1 .. MaxQueries : SyncNotFound(i)

SpecWalk == WalkInit /\ [][WalkNext]_vars /\ WF_vars(WalkNext)

\* C40: the walk ends: from some point on no GetRecord query is outstanding,
\* so only finitely many were issued.
C40_SyncQuiesces == <>[](kad_queries = <<>>)

=============================================================================
